---- MODULE Spec2Model ----
(***************************************************************************)
(* Model of the registration / admin-session / broadcast service of        *)
(* main.py.  Strings that the code transforms (emails, names, message      *)
(* templates) are sequences of one-character strings, so that lower(),     *)
(* strip() and replace() are computed and not assumed.  Every call to the  *)
(* key-value store is one atomic step of a request; the steps of different *)
(* requests interleave freely.                                             *)
(***************************************************************************)
EXTENDS Integers, Sequences, FiniteSets, TLC

\* ---------------------------------------------------------------- bounds
MaxCount == 2          \* registrations that may allocate an id
MaxPings == 4          \* pings one request may issue before the model stops counting

Reqs == {1, 2}         \* request slots handled concurrently
Procs == {1, 2}        \* server processes sharing the store
Sessions == {1}        \* browser sessions (signed cookie)
Salts == {1, 2}        \* values bcrypt.gensalt() may return

\* ------------------------------------------------------ program constants
max_retries == 3
ADMIN_USERNAME == "admin"
ADMIN_PASSWORD == "securepassword"
Subject == "New Announcement"
PH == "{{Student_name}}"
\* main.py imports no EmailMessage: the name is unbound when send_email runs
EmailMessageDefined == FALSE

\* ------------------------------------------------------------ input sets
\* the (name, email) forms submitted to POST /
Forms == { <<<<"A", "n", "n">>, <<"a", "@", "x">>>>,
           <<<<"A", "n", "n", " ">>, <<"A", "@", "x">>>>,
           <<<<"A", "n", "n">>, <<" ", "a", "@", "x">>>>,
           <<<<" ", "B", "o">>, <<"b", "@", "x">>>>,
           <<<<"B", "o">>, <<"a", "x">>>> }
Messages == { <<"H", "i", " ", PH>>, <<PH, "+", PH>> }
Usernames == { "admin", "Admin" }
Passwords == { "securepassword", "guess" }

\* -------------------------------------------------------- string helpers
LowerChar(c) ==
  CASE c = "A" -> "a"
    [] c = "B" -> "b"
    [] c = "H" -> "h"
    [] OTHER -> c

\* str.lower()
Lower(s) == [i \in 1..Len(s) |-> LowerChar(s[i])]

IsSpace(c) == c = " "

RECURSIVE LStrip(_)
LStrip(s) == IF s # <<>> /\ IsSpace(Head(s)) THEN LStrip(Tail(s)) ELSE s

RECURSIVE RStrip(_)
RStrip(s) ==
  IF s # <<>> /\ IsSpace(s[Len(s)]) THEN RStrip(SubSeq(s, 1, Len(s) - 1)) ELSE s

\* str.strip()
Strip(s) == RStrip(LStrip(s))

\* email.lower().strip(), the form written to the store
NormEmail(email) == Strip(Lower(email))

\* message.replace("{{Student_name}}", name)
RECURSIVE Replace(_, _)
Replace(message, name) ==
  IF message = <<>> THEN <<>>
  ELSE IF Head(message) = PH THEN name \o Replace(Tail(message), name)
  ELSE <<Head(message)>> \o Replace(Tail(message), name)

\* validate_email that accepts any non-empty text
validate_email_lax(email) == Strip(email) # <<>>

\* validate_email: EmailStr grammar on the trimmed value, reduced to
\* "one @ with a non-empty local part and domain, no inner whitespace"
validate_email(email) ==
  LET e == Strip(email)
      ats == {i \in 1..Len(e) : e[i] = "@"}
  IN /\ Cardinality(ats) = 1
     /\ \A i \in ats : 1 < i /\ i < Len(e)
     /\ \A i \in 1..Len(e) : ~IsSpace(e[i])

\* bcrypt.hashpw(password, salt) and bcrypt.checkpw(password, hashed)
hashpw(password, salt) == [salt |-> salt, digest |-> <<salt, password>>]
checkpw(password, hashed) == hashpw(password, hashed.salt) = hashed


\* ------------------------------------------------------------------ state
VARIABLES
  storeUp,    \* the key-value store answers commands
  account,    \* hash admin:account
  count,      \* users:count
  users,      \* hashes user:<id>, as a function id -> record
  emails,     \* hash users:emails, as a function email -> id
  session,    \* session[s]: request.session holds admin_logged_in
  loggedOut,  \* history: sessions whose last change was an admin_logout
  proc,       \* proc[p]: position of a server process in startup_event
  req,        \* req[r]: the request handled in slot r
  sent,       \* messages handed to the SMTP server, in order
  smtp        \* commands issued to the SMTP server, in order

vars == <<storeUp, account, count, users, emails, session, loggedOut, proc, req,
          sent, smtp>>

NoHash == [salt |-> 0, digest |-> <<>>]
NoAccount == [exists |-> FALSE, username |-> "", password |-> NoHash]

Idle ==
  [op |-> "none", pc |-> "idle", sess |-> 0, name |-> <<>>, email |-> <<>>,
   message |-> <<>>, username |-> "", password |-> "", retries |-> 0,
   pings |-> 0, user_id |-> 0, users |-> <<>>, scanStart |-> {},
   scanned |-> {}, idx |-> 0, flag |-> FALSE, after_logout |-> FALSE,
   code |-> 0, detail |-> ""]
\* flag is admin_logged_in of request.session, the content of the session
\* cookie the request carries, kept for the handlers that read it
\* after_logout is history: the request arrived after an admin_logout of its
\* session and no admin_login has succeeded for that session since

\* the response of a request
Respond(q, code, detail) ==
  [q EXCEPT !.pc = "done", !.code = code, !.detail = detail]

\* the response to an exception: the handler's locals are gone
Raise(q, code, detail) ==
  Respond([Idle EXCEPT !.op = q.op, !.sess = q.sess, !.flag = q.flag,
                       !.after_logout = q.after_logout], code, detail)

Init ==
  /\ storeUp = TRUE
  /\ account = NoAccount
  /\ count = 0
  /\ users = [i \in {} |-> 0]
  /\ emails = [e \in {} |-> 0]
  /\ session = [s \in Sessions |-> FALSE]
  /\ loggedOut = {}
  /\ proc = [p \in Procs |-> "start"]
  /\ req = [r \in Reqs |-> Idle]
  /\ sent = <<>>
  /\ smtp = <<>>

\* ------------------------------------------------------------ environment
StoreFail ==
  /\ storeUp
  /\ storeUp' = FALSE
  /\ UNCHANGED <<account, count, users, emails, session, loggedOut, proc, req, sent, smtp>>

StoreRecover ==
  /\ ~storeUp
  /\ storeUp' = TRUE
  /\ UNCHANGED <<account, count, users, emails, session, loggedOut, proc, req, sent, smtp>>

\* ---------------------------------------------------------------- startup
\* startup_event: ping, then initialize_admin_account
startup_event(p) ==
  /\ proc[p] = "start"
  /\ proc' = [proc EXCEPT ![p] = IF storeUp THEN "exists" ELSE "failed"]
  /\ UNCHANGED <<storeUp, account, count, users, emails, session, loggedOut, req, sent, smtp>>

\* an initialization that does not look for an existing record
AccountAbsent_unchecked(acc) == TRUE

\* the test "if not db.exists('admin:account')"
AccountAbsent(acc) == ~acc.exists

\* initialize_admin_account, the EXISTS command
InitExists(p) ==
  /\ proc[p] = "exists"
  /\ proc' = [proc EXCEPT ![p] =
       IF ~storeUp THEN "failed"
       ELSE IF AccountAbsent(account) THEN "hset" ELSE "running"]
  /\ UNCHANGED <<storeUp, account, count, users, emails, session, loggedOut, req, sent, smtp>>

\* initialize_admin_account, hashpw and the HSET command
InitHset(p) ==
  /\ proc[p] = "hset"
  /\ IF ~storeUp
       THEN /\ proc' = [proc EXCEPT ![p] = "failed"]
            /\ UNCHANGED account
       ELSE /\ \E salt \in Salts :
                 account' = [exists |-> TRUE, username |-> ADMIN_USERNAME,
                             password |-> hashpw(ADMIN_PASSWORD, salt)]
            /\ proc' = [proc EXCEPT ![p] = "running"]
  /\ UNCHANGED <<storeUp, count, users, emails, session, loggedOut, req, sent, smtp>>

\* a process that stopped or failed to start is started again
Restart(p) ==
  /\ proc[p] \in {"running", "failed"}
  /\ proc' = [proc EXCEPT ![p] = "start"]
  /\ UNCHANGED <<storeUp, account, count, users, emails, session, loggedOut, req, sent, smtp>>

Serving == \E p \in Procs : proc[p] = "running"

\* --------------------------------------------------------------- get_redis
DbOps == {"register", "login", "broadcast"}

BodyPc(op) ==
  CASE op = "register" -> "hexists"
    [] op = "login" -> "verify"
    [] op = "broadcast" -> "guard"

\* a request for a route that has the dependency Depends(get_redis)
Receive(r, op) ==
  /\ Serving
  /\ req[r].pc = "idle"
  /\ \E s \in Sessions :
       req' = [req EXCEPT ![r] = [Idle EXCEPT !.op = op, !.pc = "ping", !.sess = s,
                                               !.flag = (op = "broadcast" /\ session[s]),
                                               !.after_logout = s \in loggedOut]]
  /\ UNCHANGED <<storeUp, account, count, users, emails, session, loggedOut, proc, sent, smtp>>

\* what one redis_conn.ping() may do
PingOutcomes == IF storeUp THEN {"pong"} ELSE {"falsy", "connerr", "othererr"}

\* one iteration of the loop of get_redis_with_retry, and get_redis's handlers
get_redis_with_retry(q, o) ==
  LET p == [q EXCEPT !.pings = @ + 1] IN
  CASE o = "pong" -> [q EXCEPT !.pc = BodyPc(q.op), !.retries = 0, !.pings = 0]
    [] o = "falsy" -> p
    [] o = "connerr" ->
         IF q.retries + 1 < max_retries
           THEN [p EXCEPT !.retries = @ + 1]
           ELSE Respond([p EXCEPT !.retries = @ + 1], 500,
                        "Database connection failed. Please check Redis credentials.")
    [] o = "othererr" -> Respond(p, 500, "Database operation failed")

get_redis(r) ==
  /\ req[r].pc = "ping"
  /\ req[r].pings < MaxPings
  /\ \E o \in PingOutcomes :
       req' = [req EXCEPT ![r] = get_redis_with_retry(req[r], o)]
  /\ UNCHANGED <<storeUp, account, count, users, emails, session, loggedOut, proc, sent, smtp>>

\* the response has been delivered
Finish(r) ==
  /\ req[r].pc = "done"
  /\ req' = [req EXCEPT ![r] = Idle]
  /\ UNCHANGED <<storeUp, account, count, users, emails, session, loggedOut, proc, sent, smtp>>


\* ------------------------------------------------------------ register_user
\* db.hexists("users:emails", email): the lookup key is the submitted text
hexists(h, email) == email \in DOMAIN h

\* a counter that stops advancing after the first id
incr_no_advance(c) == IF c = 0 THEN 1 ELSE c

\* db.incr("users:count")
incr(c) == c + 1

\* the mapping written with the form fields as submitted
UserRecord_raw(name, email, user_id) ==
  [name |-> name, email |-> email, id |-> user_id]

\* the mapping written to user:<id>
UserRecord(name, email, user_id) ==
  [name |-> Strip(name), email |-> NormEmail(email), id |-> user_id]

\* validate_email, then HEXISTS users:emails
RegisterCheck(r) ==
  /\ req[r].op = "register" /\ req[r].pc = "hexists"
  /\ \E form \in Forms :
       LET name == form[1]
           email == form[2]
           q == [req[r] EXCEPT !.name = name, !.email = email] IN
       req' = [req EXCEPT ![r] =
         IF ~validate_email(email) THEN Respond(q, 400, "Invalid email format")
         ELSE IF ~storeUp THEN Raise(q, 500, "Database operation failed")
         ELSE IF hexists(emails, email) THEN Respond(q, 400, "Email already registered")
         ELSE [q EXCEPT !.pc = "incr"]]
  /\ UNCHANGED <<storeUp, account, count, users, emails, session, loggedOut, proc, sent, smtp>>

\* INCR users:count
RegisterIncr(r) ==
  /\ req[r].op = "register" /\ req[r].pc = "incr"
  /\ IF ~storeUp
       THEN /\ req' = [req EXCEPT ![r] = Raise(@, 500, "Database operation failed")]
            /\ UNCHANGED count
       ELSE /\ count < MaxCount
            /\ count' = incr(count)
            /\ req' = [req EXCEPT ![r].pc = "hset_user", ![r].user_id = incr(count)]
  /\ UNCHANGED <<storeUp, account, users, emails, session, loggedOut, proc, sent, smtp>>

\* HSET user:<id>
RegisterHsetUser(r) ==
  /\ req[r].op = "register" /\ req[r].pc = "hset_user"
  /\ IF ~storeUp
       THEN /\ req' = [req EXCEPT ![r] = Raise(@, 500, "Database operation failed")]
            /\ UNCHANGED users
       ELSE /\ users' = (req[r].user_id :>
                           UserRecord(req[r].name, req[r].email, req[r].user_id)) @@ users
            /\ req' = [req EXCEPT ![r].pc = "hset_email"]
  /\ UNCHANGED <<storeUp, account, count, emails, session, loggedOut, proc, sent, smtp>>

\* HSET users:emails, then the redirect to /success
RegisterHsetEmail(r) ==
  /\ req[r].op = "register" /\ req[r].pc = "hset_email"
  /\ IF ~storeUp
       THEN /\ req' = [req EXCEPT ![r] = Raise(@, 500, "Database operation failed")]
            /\ UNCHANGED emails
       ELSE /\ emails' = (NormEmail(req[r].email) :> req[r].user_id) @@ emails
            /\ req' = [req EXCEPT ![r] = Respond(@, 303, "/success")]
  /\ UNCHANGED <<storeUp, account, count, users, session, loggedOut, proc, sent, smtp>>

register_user(r) ==
  \/ RegisterCheck(r)
  \/ RegisterIncr(r)
  \/ RegisterHsetUser(r)
  \/ RegisterHsetEmail(r)

\* a state after startup: the processes run and admin:account is present
InitServing ==
  /\ storeUp = TRUE
  /\ \E salt \in Salts :
       account = [exists |-> TRUE, username |-> ADMIN_USERNAME,
                  password |-> hashpw(ADMIN_PASSWORD, salt)]
  /\ count = 0
  /\ users = [i \in {} |-> 0]
  /\ emails = [e \in {} |-> 0]
  /\ session = [s \in Sessions |-> FALSE]
  /\ loggedOut = {}
  /\ proc = [p \in Procs |-> "running"]
  /\ req = [r \in Reqs |-> Idle]
  /\ sent = <<>>
  /\ smtp = <<>>

NextRegister ==
  \/ StoreFail
  \/ StoreRecover
  \/ \E r \in Reqs : Receive(r, "register")
  \/ \E r \in Reqs : get_redis(r)
  \/ \E r \in Reqs : RegisterCheck(r)
  \/ \E r \in Reqs : RegisterIncr(r)
  \/ \E r \in Reqs : RegisterHsetUser(r)
  \/ \E r \in Reqs : RegisterHsetEmail(r)
  \/ \E r \in Reqs : Finish(r)

SpecRegister == InitServing /\ [][NextRegister]_vars


\* ------------------------------------------------------------ admin routes
\* verify_admin without the comparison of the username
verify_admin_any_user(username, password, admin_data) ==
  IF ~admin_data.exists THEN FALSE
  ELSE checkpw(password, admin_data.password)

\* verify_admin on the hash read by HGETALL admin:account
verify_admin(username, password, admin_data) ==
  IF ~admin_data.exists THEN FALSE
  ELSE IF username # admin_data.username THEN FALSE
  ELSE checkpw(password, admin_data.password)

\* a login that clears the session when the credentials are refused
login_session_reset(sess, s, ok) == [sess EXCEPT ![s] = ok]

\* request.session after admin_login: the flag is set when verify_admin
\* accepts, and nothing is touched when it refuses
login_session(sess, s, ok) == IF ok THEN [sess EXCEPT ![s] = TRUE] ELSE sess

\* POST /admin/login
admin_login(r) ==
  /\ req[r].op = "login" /\ req[r].pc = "verify"
  /\ \E username \in Usernames, password \in Passwords :
       LET q == [req[r] EXCEPT !.username = username, !.password = password] IN
       IF ~storeUp
         THEN /\ req' = [req EXCEPT ![r] = Raise(q, 500, "Internal Server Error")]
              /\ UNCHANGED <<session, loggedOut>>
         ELSE IF verify_admin(username, password, account)
           THEN /\ session' = login_session(session, q.sess, TRUE)
                /\ loggedOut' = loggedOut \ {q.sess}
                /\ req' = [o \in Reqs |->
                     IF o = r THEN Respond(q, 303, "/admin")
                     ELSE IF req[o].sess = q.sess
                       THEN [req[o] EXCEPT !.after_logout = FALSE]
                       ELSE req[o]]
           ELSE /\ req' = [req EXCEPT ![r] = Respond(q, 401, "Invalid credentials")]
                /\ session' = login_session(session, q.sess, FALSE)
                /\ UNCHANGED loggedOut
  /\ UNCHANGED <<storeUp, account, count, users, emails, proc, sent, smtp>>

\* a session test that lets every request pass
LoggedIn_any(flag) == TRUE

\* the test "if not request.session.get('admin_logged_in')"
LoggedIn(flag) == flag

\* GET /admin
admin_panel(r) ==
  /\ Serving
  /\ req[r].pc = "idle"
  /\ \E s \in Sessions :
       LET q == [Idle EXCEPT !.op = "panel", !.sess = s, !.flag = session[s],
                             !.after_logout = s \in loggedOut] IN
       req' = [req EXCEPT ![r] =
         IF ~LoggedIn(q.flag) THEN Respond(q, 303, "/admin/login")
         ELSE Respond(q, 200, "admin.html")]
  /\ UNCHANGED <<storeUp, account, count, users, emails, session, loggedOut, proc, sent, smtp>>

\* GET /logs
view_logs(r) ==
  /\ Serving
  /\ req[r].pc = "idle"
  /\ \E s \in Sessions, found \in BOOLEAN :
       LET q == [Idle EXCEPT !.op = "logs", !.sess = s, !.flag = session[s],
                             !.after_logout = s \in loggedOut] IN
       req' = [req EXCEPT ![r] =
         IF ~LoggedIn(q.flag) THEN Respond(q, 303, "/admin/login")
         ELSE IF found THEN Respond(q, 200, "logs.html")
         ELSE Respond(q, 404, "Logs not available")]
  /\ UNCHANGED <<storeUp, account, count, users, emails, session, loggedOut, proc, sent, smtp>>

\* POST /admin/logout: request.session.clear()
admin_logout(r) ==
  /\ Serving
  /\ req[r].pc = "idle"
  /\ \E s \in Sessions :
       /\ session' = [session EXCEPT ![s] = FALSE]
       /\ loggedOut' = loggedOut \cup {s}
       /\ req' = [req EXCEPT ![r] =
            Respond([Idle EXCEPT !.op = "logout", !.sess = s], 303, "/admin/login")]
  /\ UNCHANGED <<storeUp, account, count, users, emails, proc, sent, smtp>>

\* -------------------------------------------------------- broadcast_message
\* the session test of POST /admin/broadcast; the scan starts right after it
BroadcastGuard(r) ==
  /\ req[r].op = "broadcast" /\ req[r].pc = "guard"
  /\ \E message \in Messages :
       req' = [req EXCEPT ![r] =
         IF ~LoggedIn(req[r].flag) THEN Respond(@, 303, "/admin/login")
         ELSE [@ EXCEPT !.pc = "scan", !.message = message,
                        !.scanStart = DOMAIN users]]
  /\ UNCHANGED <<storeUp, account, count, users, emails, session, loggedOut, proc, sent, smtp>>

\* scan_iter("user:*") yields one more key, and HGETALL reads it
BroadcastScan(r) ==
  /\ req[r].op = "broadcast" /\ req[r].pc = "scan"
  /\ IF ~storeUp
       THEN req' = [req EXCEPT ![r] = Raise(@, 500, "Failed to process broadcast")]
       ELSE \E key \in DOMAIN users \ req[r].scanned :
              req' = [req EXCEPT
                ![r].scanned = @ \cup {key},
                ![r].users = Append(@, [name |-> users[key].name,
                                        email |-> users[key].email])]
  /\ UNCHANGED <<storeUp, account, count, users, emails, session, loggedOut, proc, sent, smtp>>

\* scan_iter is exhausted: every key present since the scan began was yielded
BroadcastScanEnd(r) ==
  /\ req[r].op = "broadcast" /\ req[r].pc = "scan"
  /\ storeUp
  /\ req[r].scanStart \subseteq req[r].scanned
  /\ req' = [req EXCEPT ![r].pc = "send", ![r].idx = 1]
  /\ UNCHANGED <<storeUp, account, count, users, emails, session, loggedOut, proc, sent, smtp>>

\* the calls of send_email on the SMTP server, in the order of lines 107-110
SmtpSteps == <<"connect", "starttls", "login", "send_message">>

\* the commands one "with smtplib.SMTP(...)" block issues when the step
\* named by fail raises ("none": no step raises); leaving the block of an
\* open session sends QUIT
smtp_session(fail) ==
  IF fail = "none" THEN SmtpSteps \o <<"quit">>
  ELSE LET k == CHOOSE i \in 1..Len(SmtpSteps) : SmtpSteps[i] = fail
       IN SubSeq(SmtpSteps, 1, k) \o (IF k = 1 THEN <<>> ELSE <<"quit">>)

\* a send loop that swallows the error of a send and goes on
send_email_best_effort(r) ==
  /\ req[r].op = "broadcast" /\ req[r].pc = "send"
  /\ req[r].idx <= Len(req[r].users)
  /\ req' = [req EXCEPT ![r].idx = @ + 1]
  /\ UNCHANGED <<storeUp, account, count, users, emails, session, loggedOut, proc,
                 sent, smtp>>

\* one iteration of "for user in users": replace, then send_email
send_email(r) ==
  /\ req[r].op = "broadcast" /\ req[r].pc = "send"
  /\ req[r].idx <= Len(req[r].users)
  /\ LET q == req[r]
         user == q.users[q.idx]
         personalized_message == Replace(q.message, user.name)
     IN
     IF ~EmailMessageDefined
       THEN \* msg = EmailMessage() raises NameError, which nothing catches
            /\ req' = [req EXCEPT ![r] = Raise(q, 500, "Internal Server Error")]
            /\ UNCHANGED <<sent, smtp>>
       ELSE \E fail \in {"none", "connect", "starttls", "login", "send_message"} :
              /\ smtp' = smtp \o smtp_session(fail)
              /\ IF fail = "none"
                   THEN /\ sent' = Append(sent, [to |-> user.email, subject |-> Subject,
                                                 body |-> personalized_message])
                        /\ req' = [req EXCEPT ![r].idx = @ + 1]
                   ELSE /\ req' = [req EXCEPT ![r] = Raise(q, 500, "Email sending failed")]
                        /\ UNCHANGED sent
  /\ UNCHANGED <<storeUp, account, count, users, emails, session, loggedOut, proc>>

\* the loop over users is over
BroadcastDone(r) ==
  /\ req[r].op = "broadcast" /\ req[r].pc = "send"
  /\ req[r].idx > Len(req[r].users)
  /\ req' = [req EXCEPT ![r] =
       Respond([Idle EXCEPT !.op = "broadcast", !.sess = req[r].sess,
                            !.flag = req[r].flag,
                            !.after_logout = req[r].after_logout],
               200, "Message broadcasted successfully")]
  /\ UNCHANGED <<storeUp, account, count, users, emails, session, loggedOut, proc, sent, smtp>>

broadcast_message(r) ==
  \/ BroadcastGuard(r)
  \/ BroadcastScan(r)
  \/ BroadcastScanEnd(r)
  \/ send_email(r)
  \/ BroadcastDone(r)

\* ------------------------------------------------------------ specifications
NextStartup ==
  \/ StoreFail
  \/ StoreRecover
  \/ \E p \in Procs : startup_event(p)
  \/ \E p \in Procs : InitExists(p)
  \/ \E p \in Procs : InitHset(p)
  \/ \E p \in Procs : Restart(p)

SpecStartup == Init /\ [][NextStartup]_vars

NextAdmin ==
  \/ StoreFail
  \/ StoreRecover
  \/ \E r \in Reqs : Receive(r, "login")
  \/ \E r \in Reqs : Receive(r, "broadcast")
  \/ \E r \in Reqs : get_redis(r)
  \/ \E r \in Reqs : admin_login(r)
  \/ \E r \in Reqs : admin_panel(r)
  \/ \E r \in Reqs : view_logs(r)
  \/ \E r \in Reqs : admin_logout(r)
  \/ \E r \in Reqs : BroadcastGuard(r)
  \/ \E r \in Reqs : BroadcastScan(r)
  \/ \E r \in Reqs : BroadcastScanEnd(r)
  \/ \E r \in Reqs : BroadcastDone(r)
  \/ \E r \in Reqs : Finish(r)

SpecAdmin == InitServing /\ [][NextAdmin]_vars

Next ==
  \/ StoreFail
  \/ StoreRecover
  \/ \E r \in Reqs : Receive(r, "register")
  \/ \E r \in Reqs : Receive(r, "login")
  \/ \E r \in Reqs : Receive(r, "broadcast")
  \/ \E r \in Reqs : get_redis(r)
  \/ \E r \in Reqs : RegisterCheck(r)
  \/ \E r \in Reqs : RegisterIncr(r)
  \/ \E r \in Reqs : RegisterHsetUser(r)
  \/ \E r \in Reqs : RegisterHsetEmail(r)
  \/ \E r \in Reqs : admin_login(r)
  \/ \E r \in Reqs : admin_panel(r)
  \/ \E r \in Reqs : view_logs(r)
  \/ \E r \in Reqs : admin_logout(r)
  \/ \E r \in Reqs : BroadcastGuard(r)
  \/ \E r \in Reqs : BroadcastScan(r)
  \/ \E r \in Reqs : BroadcastScanEnd(r)
  \/ \E r \in Reqs : send_email(r)
  \/ \E r \in Reqs : BroadcastDone(r)
  \/ \E r \in Reqs : Finish(r)

Spec == InitServing /\ [][Next]_vars

\* registration, login and broadcast while the store stays reachable
NextBroadcast ==
  \/ \E r \in Reqs : Receive(r, "register")
  \/ \E r \in Reqs : Receive(r, "login")
  \/ \E r \in Reqs : Receive(r, "broadcast")
  \/ \E r \in Reqs : get_redis(r)
  \/ \E r \in Reqs : RegisterCheck(r)
  \/ \E r \in Reqs : RegisterIncr(r)
  \/ \E r \in Reqs : RegisterHsetUser(r)
  \/ \E r \in Reqs : RegisterHsetEmail(r)
  \/ \E r \in Reqs : admin_login(r)
  \/ \E r \in Reqs : admin_logout(r)
  \/ \E r \in Reqs : BroadcastGuard(r)
  \/ \E r \in Reqs : BroadcastScan(r)
  \/ \E r \in Reqs : BroadcastScanEnd(r)
  \/ \E r \in Reqs : send_email(r)
  \/ \E r \in Reqs : BroadcastDone(r)
  \/ \E r \in Reqs : Finish(r)

SpecBroadcast == InitServing /\ [][NextBroadcast]_vars

\* ------------------------------------------------- claims on register_user
Won(r) == req[r].op = "register" /\ req[r].pc = "done" /\ req[r].code = 303

\* the request in slot r takes its step "validate_email, HEXISTS"
Checks(r) == req[r].op = "register" /\ req[r].pc = "hexists" /\ req'[r].pc # "hexists"

\* C1: of the register_user requests that submit the same address, already
\* in normalized form, and run at the same time, at most one is answered
\* with the 303 redirect.
C1_OneWinner ==
  \A r1, r2 \in Reqs :
    (r1 # r2 /\ Won(r1) /\ Won(r2) /\ req[r1].email = NormEmail(req[r1].email))
      => req[r1].email # req[r2].email

\* C2: with no other request in flight, a register_user whose normalized
\* email is already a key of users:emails is answered 400 "Email already
\* registered" (and so writes nothing).
C2_DuplicateRejected ==
  [][\A r \in Reqs :
       ( /\ Checks(r)
         /\ storeUp
         /\ \A o \in Reqs \ {r} : req[o].pc = "idle"
         /\ req'[r].email # <<>>
         /\ NormEmail(req'[r].email) \in DOMAIN emails )
       => ( /\ req'[r].pc = "done"
            /\ req'[r].code = 400
            /\ req'[r].detail = "Email already registered" )]_vars

\* C3: a register_user with a well-formed email whose normalized form is not
\* in users:emails passes the duplicate check; its HSET user:<id> creates a
\* key that did not exist, holding the trimmed name, the lowercased and
\* trimmed email and the id; and when it answers 303 that record is still
\* there and users:emails maps the normalized email to its id.
C3_RegisterCreates ==
  [][\A r \in Reqs :
       LET q == req[r]
           rec == [name |-> Strip(q.name), email |-> Strip(Lower(q.email)),
                   id |-> q.user_id]
       IN
       /\ ( /\ Checks(r)
            /\ storeUp
            /\ validate_email(req'[r].email)
            /\ NormEmail(req'[r].email) \notin DOMAIN emails )
          => req'[r].pc = "incr"
       /\ (q.pc = "incr" /\ req'[r].pc = "hset_user")
          => /\ req'[r].user_id \notin DOMAIN users
             /\ \A o \in Reqs \ {r} :
                  req[o].pc \in {"hset_user", "hset_email"}
                    => req[o].user_id # req'[r].user_id
       /\ (q.pc = "hset_user" /\ req'[r].pc = "hset_email")
          => /\ q.user_id \notin DOMAIN users
             /\ DOMAIN users' = DOMAIN users \cup {q.user_id}
             /\ users'[q.user_id] = rec
             /\ \A i \in DOMAIN users : users'[i] = users[i]
       /\ (q.pc = "hset_email" /\ req'[r].code = 303)
          => /\ users'[q.user_id] = rec
             /\ Strip(Lower(q.email)) \in DOMAIN emails'
             /\ emails'[Strip(Lower(q.email))] = q.user_id]_vars

\* a registration with a padded name and one with an upper-case email have
\* both been answered 303 and two records exist
C3_Witness ==
  /\ Cardinality(DOMAIN users) = 2
  /\ \E r \in Reqs : Won(r) /\ req[r].name # Strip(req[r].name)
  /\ \E r \in Reqs : Won(r) /\ req[r].email # Lower(req[r].email)

\* C4: whenever no register_user request is between its steps, users:emails
\* and the user:<id> records agree: each record's email is a key mapped to
\* that record's id, each entry points to a record with that email, and no
\* two records hold the same email.
C4_IndexConsistent ==
  (\A r \in Reqs : req[r].pc \in {"idle", "done"})
    => /\ \A i \in DOMAIN users :
            users[i].email \in DOMAIN emails /\ emails[users[i].email] = i
       /\ \A e \in DOMAIN emails :
            emails[e] \in DOMAIN users /\ users[emails[e]].email = e
       /\ \A i, j \in DOMAIN users : users[i].email = users[j].email => i = j

\* an address without "@" is malformed
Malformed(email) == \A i \in 1..Len(email) : email[i] # "@"

Answered(r) == req[r].pc # "done" /\ req'[r].pc = "done"

\* C5: an admin_login that reads admin:account answers 303 to /admin and
\* sets admin_logged_in exactly when the submitted username is the stored one
\* and the submitted password is the one whose hash is stored; otherwise it
\* answers 401 "Invalid credentials", the same for a wrong username and a
\* wrong password, and leaves the session as it was.
C5_LoginIff ==
  [][\A r \in Reqs :
       (req[r].op = "login" /\ req[r].pc = "verify" /\ Answered(r) /\ storeUp)
       => LET q == req'[r] IN
          IF /\ account.exists
             /\ q.username = account.username
             /\ q.password = ADMIN_PASSWORD
            THEN q.code = 303 /\ q.detail = "/admin" /\ session'[q.sess]
            ELSE q.code = 401 /\ q.detail = "Invalid credentials"
                 /\ session' = session]_vars

\* a login was accepted, and another with the right password but another
\* spelling of the username was refused
C5_Witness ==
  \E r1, r2 \in Reqs :
    /\ req[r1].op = "login" /\ req[r1].pc = "done" /\ req[r1].code = 303
    /\ session[req[r1].sess]
    /\ req[r2].op = "login" /\ req[r2].pc = "done" /\ req[r2].code = 401
    /\ req[r2].username # ADMIN_USERNAME /\ req[r2].password = ADMIN_PASSWORD

GuardedOps == {"panel", "broadcast", "logs"}

\* C6: a request for GET /admin, POST /admin/broadcast or GET /logs that
\* arrives after admin_logout was handled for its session, and is answered
\* while no admin_login has succeeded for that session since, is answered
\* with the redirect to /admin/login.
C6_RedirectAfterLogout ==
  [][\A r \in Reqs :
       ( /\ Answered(r)
         /\ req'[r].op \in GuardedOps
         /\ req'[r].after_logout )
       => (req'[r].code = 303 /\ req'[r].detail = "/admin/login")]_vars

\* C8: one run of get_redis_with_retry issues at most max_retries pings.
C8_BoundedAttempts ==
  \A r \in Reqs : req[r].pings <= max_retries

\* --------------------------------------------------------- claims on startup
\* C9 as stated: once admin:account is stored, no initialization run of any
\* process changes it.
C9_FirstHashKept ==
  [][account.exists => account' = account]_vars

\* C9: an initialization run whose EXISTS finds admin:account writes nothing
\* and ends; and once the record exists and no process is between its EXISTS
\* and its HSET, no step changes the stored username or hash.
C9_Idempotent ==
  [][ /\ \A p \in Procs :
           (proc[p] = "exists" /\ proc'[p] # "exists" /\ storeUp /\ account.exists)
           => (proc'[p] = "running" /\ account' = account)
      /\ (account.exists /\ \A p \in Procs : proc[p] # "hset")
           => (account' = account /\ \A p \in Procs : proc'[p] # "hset")]_vars

\* every process has run its initialization and the record is stored
C9_Witness ==
  /\ account.exists
  /\ account.username = ADMIN_USERNAME
  /\ \A p \in Procs : proc[p] = "running"

\* ------------------------------------------------------ claims on broadcast
\* C7: each pass of the send loop of a broadcast that does not end in an SMTP
\* failure hands the SMTP server one message for the record at hand: to its
\* stored email, with the fixed subject, the body being the template with
\* every {{Student_name}} replaced by the record's name.
C7_OneEmailPerUser ==
  [][\A r \in Reqs :
       ( /\ req[r].op = "broadcast" /\ req[r].pc = "send"
         /\ req[r].idx <= Len(req[r].users)
         /\ req'[r] # req[r]
         /\ req'[r].detail # "Email sending failed" )
       => LET user == req[r].users[req[r].idx] IN
          sent' = Append(sent, [to |-> user.email, subject |-> "New Announcement",
                                body |-> Replace(req[r].message, user.name)])]_vars


\* ------------------------------------------------- claims on the session guard
\* C11: a request for GET /admin, POST /admin/broadcast or GET /logs whose
\* session does not hold admin_logged_in is answered with the redirect to
\* /admin/login, whatever the state of the store.
C11_GuestRedirected ==
  [][\A r \in Reqs :
       (Answered(r) /\ req'[r].op \in GuardedOps /\ ~req'[r].flag)
       => (req'[r].code = 303 /\ req'[r].detail = "/admin/login")]_vars

\* the request in slot r runs one pass of the send loop in this step
Sends(r) ==
  /\ req[r].op = "broadcast" /\ req[r].pc = "send"
  /\ req[r].idx <= Len(req[r].users)
  /\ req'[r] # req[r]

\* C12: a pass of the send loop that dispatches nothing ends the broadcast
\* with a 500; an answered broadcast takes no further step, so nothing is
\* sent to the recipients after the failed one; what was handed to the SMTP
\* server stays; and the success answer is given only after the pass for the
\* last recipient.
C12_FailFast ==
  [][\A r \in Reqs :
       /\ (Sends(r) /\ Len(sent') = Len(sent))
          => (req'[r].pc = "done" /\ req'[r].code = 500 /\ sent' = sent)
       /\ (req[r].op = "broadcast" /\ req[r].pc = "done")
          => req'[r].pc \in {"done", "idle"}
       /\ Len(sent') >= Len(sent) /\ SubSeq(sent', 1, Len(sent)) = sent
       /\ (Answered(r) /\ req'[r].op = "broadcast" /\ req'[r].code = 200)
          => (req[r].pc = "send" /\ req[r].idx > Len(req[r].users))]_vars

\* a broadcast over a store with two records ended with the 500 of its first
\* failed send, and no message went out
C12_Witness ==
  /\ Cardinality(DOMAIN users) >= 2
  /\ sent = <<>>
  /\ \E r \in Reqs :
       /\ req[r].op = "broadcast" /\ req[r].pc = "done" /\ req[r].flag
       /\ req[r].code = 500 /\ req[r].detail = "Internal Server Error"

\* C13: a step of any request keeps every existing user:<id> record as it is,
\* and HSET user:<id> of a registration writes a key that does not exist yet.
C13_RecordsImmutable ==
  [][ /\ \A i \in DOMAIN users : i \in DOMAIN users' /\ users'[i] = users[i]
      /\ \A r \in Reqs :
           (req[r].op = "register" /\ req[r].pc = "hset_user"
              /\ req'[r].pc = "hset_email")
           => req[r].user_id \notin DOMAIN users ]_vars

\* two records exist, a broadcast has read both, and a logout was handled
C13_Witness ==
  /\ Cardinality(DOMAIN users) = 2
  /\ loggedOut # {}
  /\ \E r \in Reqs :
       req[r].op = "broadcast" /\ req[r].pc = "send" /\ Len(req[r].users) = 2

\* C14: each call of send_email opens one SMTP session: the commands it
\* issues start with one connect, in the order starttls, login, send_message,
\* with at most one send_message.
C14_OneSmtpSession ==
  [][\A r \in Reqs :
       Sends(r)
       => LET new == SubSeq(smtp', Len(smtp) + 1, Len(smtp')) IN
          /\ Len(smtp') > Len(smtp)
          /\ new[1] = "connect"
          /\ Cardinality({i \in 1..Len(new) : new[i] = "connect"}) = 1
          /\ Cardinality({i \in 1..Len(new) : new[i] = "send_message"}) <= 1]_vars

\* C15: a broadcast request reads user records and runs the send loop only
\* if the session it arrived with held admin_logged_in, that is, a login had
\* succeeded for the session and no logout had been handled since; and a
\* message is handed to the SMTP server only by such a request.
C15_OnlyAdminBroadcasts ==
  [][\A r \in Reqs :
       /\ (req'[r].op = "broadcast" /\ req'[r].pc \in {"scan", "send"})
          => req'[r].flag
       /\ (req[r].pc = "idle" /\ req'[r].op = "broadcast" /\ req'[r].flag)
          => (session[req'[r].sess] /\ req'[r].sess \notin loggedOut)
       /\ (sent' # sent)
          => \E o \in Reqs : req[o].op = "broadcast" /\ req[o].pc = "send"
                             /\ req[o].flag /\ req'[o] # req[o]]_vars

\* a broadcast that arrived with the flag set has read a record and is in
\* its send loop, while another broadcast was sent back to the login form
C15_Witness ==
  \E r1, r2 \in Reqs :
    /\ req[r1].op = "broadcast" /\ req[r1].pc = "send" /\ req[r1].flag
    /\ Len(req[r1].users) >= 1
    /\ req[r2].op = "broadcast" /\ req[r2].pc = "done" /\ ~req[r2].flag
    /\ req[r2].code = 303

\* C16: an admin_login answered 401 leaves every session as it was; the flag
\* of a session becomes set only in a step in which an admin_login of that
\* session is answered 303, and becomes unset only in an admin_logout of that
\* session.
C16_SessionFrame ==
  [][ /\ \A r \in Reqs :
           (req[r].op = "login" /\ Answered(r) /\ req'[r].code = 401)
           => session' = session
      /\ \A s \in Sessions :
           /\ (session'[s] /\ ~session[s])
              => \E r \in Reqs : /\ req[r].op = "login" /\ req[r].pc = "verify"
                                 /\ req[r].sess = s
                                 /\ req'[r].pc = "done" /\ req'[r].code = 303
           /\ (~session'[s] /\ session[s])
              => \E r \in Reqs : /\ req[r].pc = "idle"
                                 /\ req'[r].op = "logout" /\ req'[r].sess = s ]_vars

\* a login was refused for a session that is logged in, and it still is
C16_Witness ==
  \E r \in Reqs :
    /\ req[r].op = "login" /\ req[r].pc = "done" /\ req[r].code = 401
    /\ session[req[r].sess]

====
